---- MODULE Spec2Model ----
(***************************************************************************)
(* rmcp-i3: the tool-dispatch adapter of src/src/lib.rs.                   *)
(*                                                                         *)
(* Every tool call connects to the window manager (I3::connect), performs  *)
(* one native action on that connection (run_command, get_workspaces or    *)
(* get_tree), and turns the reply into a CallToolResult or an McpError.    *)
(*                                                                         *)
(* Text is modelled character by character: a Rust String is a sequence    *)
(* of one-character strings, format!("lit{}", s) is concatenation, and     *)
(* serde_json::to_string_pretty is computed down to the characters it      *)
(* writes (quotes, escapes, line breaks, indentation).                     *)
(***************************************************************************)
EXTENDS Naturals, Integers, Sequences, FiniteSets

(***************************************************************************)
(* Bounds of the model.                                                    *)
(***************************************************************************)
\* Number of tool calls the host serves, concurrently or one after another.
NumCalls == 2

\* Longest list of sub-command results the window manager replies with.
MaxResults == 2

(***************************************************************************)
(* String literals of lib.rs.                                              *)
(***************************************************************************)
\* "Failed to connect to i3: "
ConnectErrPrefix ==
    <<"F","a","i","l","e","d"," ","t","o"," ","c","o","n","n","e","c","t"," ",
      "t","o"," ","i","3",":"," ">>

\* "workspace "
CmdWorkspace ==
    <<"w","o","r","k","s","p","a","c","e"," ">>

\* " focus"
CmdFocus ==
    <<" ","f","o","c","u","s">>

\* "move container to workspace "
CmdMoveToWorkspace ==
    <<"m","o","v","e"," ","c","o","n","t","a","i","n","e","r"," ","t","o"," ",
      "w","o","r","k","s","p","a","c","e"," ">>

\* "exec "
CmdExec ==
    <<"e","x","e","c"," ">>

\* "kill"
CmdKill ==
    <<"k","i","l","l">>

\* " kill"
CmdKillSuffix ==
    <<" ","k","i","l","l">>

\* "fullscreen toggle"
CmdFullscreen ==
    <<"f","u","l","l","s","c","r","e","e","n"," ","t","o","g","g","l","e">>

\* "Switched to workspace '"
MsgSwitched ==
    <<"S","w","i","t","c","h","e","d"," ","t","o"," ","w","o","r","k","s","p",
      "a","c","e"," ","'">>

\* "Focused window matching '"
MsgFocused ==
    <<"F","o","c","u","s","e","d"," ","w","i","n","d","o","w"," ","m","a","t",
      "c","h","i","n","g"," ","'">>

\* "Moved window to workspace '"
MsgMoved ==
    <<"M","o","v","e","d"," ","w","i","n","d","o","w"," ","t","o"," ","w","o",
      "r","k","s","p","a","c","e"," ","'">>

\* "Launched '"
MsgLaunched ==
    <<"L","a","u","n","c","h","e","d"," ","'">>

\* "Killed focused window"
MsgKilledFocused ==
    <<"K","i","l","l","e","d"," ","f","o","c","u","s","e","d"," ","w","i","n",
      "d","o","w">>

\* "Killed window matching '"
MsgKilledMatching ==
    <<"K","i","l","l","e","d"," ","w","i","n","d","o","w"," ","m","a","t","c",
      "h","i","n","g"," ","'">>

\* "Toggled fullscreen"
MsgToggled ==
    <<"T","o","g","g","l","e","d"," ","f","u","l","l","s","c","r","e","e",
      "n">>

\* "'"
MsgQuote ==
    <<"'">>

\* "Failed to switch workspace: "
FailSwitch ==
    <<"F","a","i","l","e","d"," ","t","o"," ","s","w","i","t","c","h"," ","w",
      "o","r","k","s","p","a","c","e",":"," ">>

\* "Failed to focus window: "
FailFocus ==
    <<"F","a","i","l","e","d"," ","t","o"," ","f","o","c","u","s"," ","w","i",
      "n","d","o","w",":"," ">>

\* "Failed to move window: "
FailMove ==
    <<"F","a","i","l","e","d"," ","t","o"," ","m","o","v","e"," ","w","i","n",
      "d","o","w",":"," ">>

\* "Failed to launch: "
FailLaunch ==
    <<"F","a","i","l","e","d"," ","t","o"," ","l","a","u","n","c","h",":",
      " ">>

\* "Failed to kill window: "
FailKill ==
    <<"F","a","i","l","e","d"," ","t","o"," ","k","i","l","l"," ","w","i","n",
      "d","o","w",":"," ">>

\* "Failed to toggle fullscreen: "
FailFullscreen ==
    <<"F","a","i","l","e","d"," ","t","o"," ","t","o","g","g","l","e"," ","f",
      "u","l","l","s","c","r","e","e","n",":"," ">>

\* "Failed to get workspaces: "
ErrGetWorkspaces ==
    <<"F","a","i","l","e","d"," ","t","o"," ","g","e","t"," ","w","o","r","k",
      "s","p","a","c","e","s",":"," ">>

\* "Failed to get tree: "
ErrGetTree ==
    <<"F","a","i","l","e","d"," ","t","o"," ","g","e","t"," ","t","r","e","e",
      ":"," ">>

\* "Failed to run command: "
ErrRunCommand ==
    <<"F","a","i","l","e","d"," ","t","o"," ","r","u","n"," ","c","o","m","m",
      "a","n","d",":"," ">>

\* "Failed to exec: "
ErrExec ==
    <<"F","a","i","l","e","d"," ","t","o"," ","e","x","e","c",":"," ">>

\* "Failed to serialize workspaces: "
ErrSerWorkspaces ==
    <<"F","a","i","l","e","d"," ","t","o"," ","s","e","r","i","a","l","i","z",
      "e"," ","w","o","r","k","s","p","a","c","e","s",":"," ">>

\* "Failed to serialize tree: "
ErrSerTree ==
    <<"F","a","i","l","e","d"," ","t","o"," ","s","e","r","i","a","l","i","z",
      "e"," ","t","r","e","e",":"," ">>

\* "Failed to serialize results: "
ErrSerResults ==
    <<"F","a","i","l","e","d"," ","t","o"," ","s","e","r","i","a","l","i","z",
      "e"," ","r","e","s","u","l","t","s",":"," ">>

\* ", "
JoinSep ==
    <<","," ">>

(***************************************************************************)
(* Requests: the ten tools and their parameter records.                    *)
(***************************************************************************)
Operations ==
    {"get_workspaces", "get_tree", "switch_workspace", "focus_window",
     "move_to_workspace", "run_command", "exec", "kill", "kill_window",
     "fullscreen"}

\* The tools that take a parameter record (one String field each).
HasParam(op) ==
    op \in {"switch_workspace", "focus_window", "move_to_workspace",
            "run_command", "exec", "kill_window"}

\* A faulty Command: the parameter is put between quotes.
CommandQuoted(op, p) ==
    CASE op = "switch_workspace"  -> CmdWorkspace \o <<"\"">> \o p \o <<"\"">>
      [] op = "focus_window"      -> <<"\"">> \o p \o <<"\"">> \o CmdFocus
      [] op = "move_to_workspace" -> CmdMoveToWorkspace \o p
      [] op = "run_command"       -> p
      [] op = "exec"              -> CmdExec \o p
      [] op = "kill"              -> CmdKill
      [] op = "kill_window"       -> p \o CmdKillSuffix
      [] op = "fullscreen"        -> CmdFullscreen

\* The command string handed to conn.run_command by the command tools.
Command(op, p) ==
    CASE op = "switch_workspace"  -> CmdWorkspace \o p
      [] op = "focus_window"      -> p \o CmdFocus
      [] op = "move_to_workspace" -> CmdMoveToWorkspace \o p
      [] op = "run_command"       -> p
      [] op = "exec"              -> CmdExec \o p
      [] op = "kill"              -> CmdKill
      [] op = "kill_window"       -> p \o CmdKillSuffix
      [] op = "fullscreen"        -> CmdFullscreen

\* The one call a tool makes on its connection.
NativeAction(op, p) ==
    CASE op = "get_workspaces" -> [kind |-> "get_workspaces", text |-> <<>>]
      [] op = "get_tree"       -> [kind |-> "get_tree", text |-> <<>>]
      [] OTHER                 -> [kind |-> "run_command", text |-> Command(op, p)]

\* The confirmation message of a command tool.
SuccessMsg(op, p) ==
    CASE op = "switch_workspace"  -> MsgSwitched \o p \o MsgQuote
      [] op = "focus_window"      -> MsgFocused \o p \o MsgQuote
      [] op = "move_to_workspace" -> MsgMoved \o p \o MsgQuote
      [] op = "exec"              -> MsgLaunched \o p \o MsgQuote
      [] op = "kill"              -> MsgKilledFocused
      [] op = "kill_window"       -> MsgKilledMatching \o p \o MsgQuote
      [] op = "fullscreen"        -> MsgToggled

\* The prefix of a command tool's failure message.
FailPrefix(op) ==
    CASE op = "switch_workspace"  -> FailSwitch
      [] op = "focus_window"      -> FailFocus
      [] op = "move_to_workspace" -> FailMove
      [] op = "exec"              -> FailLaunch
      [] op = "kill"              -> FailKill
      [] op = "kill_window"       -> FailKill
      [] op = "fullscreen"        -> FailFullscreen

\* The prefix of the McpError a tool builds when its native action fails
\* with an I/O error.
IoErrPrefix(op) ==
    CASE op = "get_workspaces"    -> ErrGetWorkspaces
      [] op = "get_tree"          -> ErrGetTree
      [] op = "switch_workspace"  -> FailSwitch
      [] op = "focus_window"      -> FailFocus
      [] op = "move_to_workspace" -> FailMove
      [] op = "run_command"       -> ErrRunCommand
      [] op = "exec"              -> ErrExec
      [] op = "kill"              -> FailKill
      [] op = "kill_window"       -> FailKill
      [] op = "fullscreen"        -> FailFullscreen

\* The tools that serialize the reply with serde_json, and the prefix of
\* the McpError they build when that fails.
Serializes(op) == op \in {"get_workspaces", "get_tree", "run_command"}

SerErrPrefix(op) ==
    CASE op = "get_workspaces" -> ErrSerWorkspaces
      [] op = "get_tree"       -> ErrSerTree
      [] op = "run_command"    -> ErrSerResults

(***************************************************************************)
(* Results of a call: Result<CallToolResult, McpError>.                    *)
(***************************************************************************)
\* Ok(CallToolResult::success(vec![Content::text(text)]))
ToolSuccess(text) == [tier |-> "Ok", text |-> text]

\* Err(McpError::internal_error(text, None))
InternalError(text) == [tier |-> "Err", text |-> text]

\* No result yet (the call has not returned).
NoResult == [tier |-> "None", text |-> <<>>]

(***************************************************************************)
(* The result normalizer of the command tools.  A sub-command result is    *)
(* [success, error] with error an Option<String>: <<>> is None and <<s>>   *)
(* is Some(s).                                                             *)
(***************************************************************************)
\* A faulty AllSuccess: only the first sub-result is looked at.
FirstSuccess(results) == results = <<>> \/ Head(results).success

\* results.iter().all(|r| r.success)
RECURSIVE AllSuccess(_)
AllSuccess(results) ==
    IF results = <<>> THEN TRUE
    ELSE IF ~Head(results).success THEN FALSE
    ELSE AllSuccess(Tail(results))

\* results.iter().filter_map(|r| r.error.clone()).collect()
RECURSIVE CollectErrors(_)
CollectErrors(results) ==
    IF results = <<>> THEN <<>>
    ELSE Head(results).error \o CollectErrors(Tail(results))

\* errors.join(sep)
RECURSIVE Join(_, _)
Join(strs, sep) ==
    IF strs = <<>> THEN <<>>
    ELSE IF Len(strs) = 1 THEN strs[1]
    ELSE strs[1] \o sep \o Join(Tail(strs), sep)

\* A faulty Normalize: a native failure is returned as an McpError.
NormalizeFailureAsError(op, p, results) ==
    IF AllSuccess(results)
    THEN ToolSuccess(SuccessMsg(op, p))
    ELSE InternalError(FailPrefix(op) \o Join(CollectErrors(results), JoinSep))

\* The success / failure branch every command tool ends with.
Normalize(op, p, results) ==
    IF AllSuccess(results)
    THEN ToolSuccess(SuccessMsg(op, p))
    ELSE ToolSuccess(FailPrefix(op) \o Join(CollectErrors(results), JoinSep))

(***************************************************************************)
(* serde_json::to_string_pretty.  A JSON value is a record tagged by t.    *)
(***************************************************************************)
JNull == [t |-> "null"]
JBool(b) == [t |-> "bool", b |-> b]
JNum(n) == [t |-> "num", n |-> n]
JStr(s) == [t |-> "str", s |-> s]
JArr(items) == [t |-> "arr", items |-> items]
JObj(fields) == [t |-> "obj", fields |-> fields]

Digits == <<"0", "1", "2", "3", "4", "5", "6", "7", "8", "9">>

\* An integer in decimal.
RECURSIVE Itoa(_)
Itoa(n) ==
    IF n < 0 THEN <<"-">> \o Itoa(0 - n)
    ELSE IF n < 10 THEN <<Digits[n + 1]>>
    ELSE Itoa(n \div 10) \o <<Digits[(n % 10) + 1]>>

\* The characters of a string as they stand between the quotes.
RECURSIVE EscapeJson(_)
EscapeJson(s) ==
    IF s = <<>> THEN <<>>
    ELSE (CASE Head(s) = "\"" -> <<"\\", "\"">>
            [] Head(s) = "\\" -> <<"\\", "\\">>
            [] Head(s) = "\n" -> <<"\\", "n">>
            [] OTHER          -> <<Head(s)>>) \o EscapeJson(Tail(s))

QuoteJson(s) == <<"\"">> \o EscapeJson(s) \o <<"\"">>

\* Two spaces per level.
RECURSIVE Indent(_)
Indent(d) == IF d = 0 THEN <<>> ELSE <<" ", " ">> \o Indent(d - 1)

RECURSIVE PrettyJson(_, _)
RECURSIVE PrettyItems(_, _)
RECURSIVE PrettyFields(_, _)

\* The items of a non-empty array at depth d, one per line.
PrettyItems(items, d) ==
    <<"\n">> \o Indent(d) \o PrettyJson(Head(items), d)
    \o (IF Len(items) = 1 THEN <<>>
        ELSE <<",">> \o PrettyItems(Tail(items), d))

\* The fields of a non-empty object at depth d, one per line.
PrettyFields(fields, d) ==
    <<"\n">> \o Indent(d) \o QuoteJson(Head(fields)[1]) \o <<":", " ">>
    \o PrettyJson(Head(fields)[2], d)
    \o (IF Len(fields) = 1 THEN <<>>
        ELSE <<",">> \o PrettyFields(Tail(fields), d))

PrettyJson(v, d) ==
    CASE v.t = "null" -> <<"n", "u", "l", "l">>
      [] v.t = "bool" -> (IF v.b THEN <<"t", "r", "u", "e">>
                          ELSE <<"f", "a", "l", "s", "e">>)
      [] v.t = "num"  -> Itoa(v.n)
      [] v.t = "str"  -> QuoteJson(v.s)
      [] v.t = "arr"  -> (IF v.items = <<>> THEN <<"[", "]">>
                          ELSE <<"[">> \o PrettyItems(v.items, d + 1)
                               \o <<"\n">> \o Indent(d) \o <<"]">>)
      [] v.t = "obj"  -> (IF v.fields = <<>> THEN <<"{", "}">>
                          ELSE <<"{">> \o PrettyFields(v.fields, d + 1)
                               \o <<"\n">> \o Indent(d) \o <<"}">>)

ToStringPretty(v) == PrettyJson(v, 0)

\* Field names of the serialized reply types.
KeySuccess == <<"s", "u", "c", "c", "e", "s", "s">>
KeyError == <<"e", "r", "r", "o", "r">>
KeyId == <<"i", "d">>
KeyNum == <<"n", "u", "m">>
KeyName == <<"n", "a", "m", "e">>
KeyVisible == <<"v", "i", "s", "i", "b", "l", "e">>
KeyFocused == <<"f", "o", "c", "u", "s", "e", "d">>
KeyUrgent == <<"u", "r", "g", "e", "n", "t">>
KeyRect == <<"r", "e", "c", "t">>
KeyX == <<"x">>
KeyY == <<"y">>
KeyWidth == <<"w", "i", "d", "t", "h">>
KeyHeight == <<"h", "e", "i", "g", "h", "t">>
KeyOutput == <<"o", "u", "t", "p", "u", "t">>
KeyNodes == <<"n", "o", "d", "e", "s">>

\* A faulty SuccessJson: the error text is left out.
SuccessJsonFlagOnly(r) ==
    JObj(<< <<KeySuccess, JBool(r.success)>>, <<KeyError, JNull>> >>)

\* reply::Success { success: bool, error: Option<String> }
SuccessJson(r) ==
    JObj(<< <<KeySuccess, JBool(r.success)>>,
            <<KeyError, IF r.error = <<>> THEN JNull ELSE JStr(r.error[1])>> >>)

\* reply::Rect { x, y, width, height }
RectJson(r) ==
    JObj(<< <<KeyX, JNum(r.x)>>, <<KeyY, JNum(r.y)>>,
            <<KeyWidth, JNum(r.width)>>, <<KeyHeight, JNum(r.height)>> >>)

\* reply::Workspace
WorkspaceJson(w) ==
    JObj(<< <<KeyId, JNum(w.id)>>, <<KeyNum, JNum(w.num)>>,
            <<KeyName, JStr(w.name)>>, <<KeyVisible, JBool(w.visible)>>,
            <<KeyFocused, JBool(w.focused)>>, <<KeyUrgent, JBool(w.urgent)>>,
            <<KeyRect, RectJson(w.rect)>>, <<KeyOutput, JStr(w.output)>> >>)

\* reply::Node, projected on the fields that carry the tree: id, name and
\* the child nodes.
RECURSIVE NodeJson(_)
NodeJson(n) ==
    JObj(<< <<KeyId, JNum(n.id)>>,
            <<KeyName, IF n.name = <<>> THEN JNull ELSE JStr(n.name[1])>>,
            <<KeyNodes, JArr([i \in 1..Len(n.nodes) |-> NodeJson(n.nodes[i])])>> >>)

\* The JSON value serde builds for a reply of the IPC client.
ReplyJson(reply) ==
    CASE reply.kind = "results" ->
            JArr([i \in 1..Len(reply.data) |-> SuccessJson(reply.data[i])])
      [] reply.kind = "workspaces" ->
            JArr([i \in 1..Len(reply.data) |-> WorkspaceJson(reply.data[i])])
      [] reply.kind = "tree" -> NodeJson(reply.data)

\* A faulty Finish: kill serializes its reply like run_command.
FinishKillSerialized(o, p, reply) ==
    IF Serializes(o) \/ o = "kill"
    THEN ToolSuccess(ToStringPretty(ReplyJson(reply)))
    ELSE Normalize(o, p, reply.data)

\* What a tool returns once the reply of its native action has arrived.
Finish(o, p, reply) ==
    IF Serializes(o)
    THEN ToolSuccess(ToStringPretty(ReplyJson(reply)))
    ELSE Normalize(o, p, reply.data)

(***************************************************************************)
(* Inputs: what the client may send and what the window manager may        *)
(* answer.                                                                 *)
(***************************************************************************)
\* Parameter strings: empty, a workspace number, a name, a criteria string.
Params ==
    {<<>>, <<"2">>, <<"w", "e", "b">>, <<"[", "\"", "]">>}

\* Error texts of a sub-command result.
ErrorTexts == {<<>>, <<"N", "o">>, <<"\"">>}

\* Option<String>
ErrorOptions == {<<>>} \cup {<<s>> : s \in ErrorTexts}

SubResults == [success : BOOLEAN, error : ErrorOptions]

RECURSIVE SeqsUpTo(_, _)
SeqsUpTo(S, n) ==
    IF n = 0 THEN {<<>>}
    ELSE LET shorter == SeqsUpTo(S, n - 1)
         IN  shorter \cup {Append(s, x) : s \in shorter, x \in S}

ResultLists == SeqsUpTo(SubResults, MaxResults)

Workspace1 ==
    [id |-> 94, num |-> 1, name |-> <<"1">>, visible |-> TRUE,
     focused |-> TRUE, urgent |-> FALSE,
     rect |-> [x |-> 0, y |-> 0, width |-> 1920, height |-> 1080],
     output |-> <<"e", "D", "P">>]

Workspace2 ==
    [id |-> 95, num |-> -1, name |-> <<"w", "e", "b">>, visible |-> FALSE,
     focused |-> FALSE, urgent |-> TRUE,
     rect |-> [x |-> 0, y |-> 0, width |-> 1920, height |-> 1080],
     output |-> <<"e", "D", "P">>]

WorkspaceLists == {<<>>, <<Workspace1>>, <<Workspace1, Workspace2>>}

Leaf == [id |-> 7, name |-> <<>>, nodes |-> <<>>]

Trees ==
    {Leaf, [id |-> 1, name |-> << <<"r", "o", "o", "t">> >>, nodes |-> <<Leaf>>]}

\* The replies the window manager may give to a request.
Replies(kind) ==
    CASE kind = "run_command" ->
            {[kind |-> "results", data |-> r] : r \in ResultLists}
      [] kind = "get_workspaces" ->
            {[kind |-> "workspaces", data |-> w] : w \in WorkspaceLists}
      [] kind = "get_tree" ->
            {[kind |-> "tree", data |-> t] : t \in Trees}

\* The inputs of the concurrent specification: one parameter, and per
\* request one accepting and one refusing reply.
ConcParams == {<<"2">>}

ConcReplies(kind) ==
    CASE kind = "run_command" ->
            {[kind |-> "results",
              data |-> <<[success |-> TRUE, error |-> <<>>]>>],
             [kind |-> "results",
              data |-> <<[success |-> FALSE, error |-> << <<"N", "o">> >>]>>]}
      [] kind = "get_workspaces" ->
            {[kind |-> "workspaces", data |-> <<Workspace1>>]}
      [] kind = "get_tree" ->
            {[kind |-> "tree", data |-> Leaf]}

\* Display texts of the errors of the IPC client and of serde_json.
Errors == {<<"e", "r", "r">>}

(***************************************************************************)
(* State.                                                                  *)
(***************************************************************************)
Calls == 1..NumCalls

\* A socket is named by the call that opened it and the number of sockets
\* that call had opened before.
NoConn == <<>>

NoReply == [kind |-> "none"]

VARIABLES
    op,      \* op[c]: the tool call c invokes
    param,   \* param[c]: its parameter string (<<>> for a tool without)
    pc,      \* pc[c]: idle, connecting, connected, awaiting, done, cancelled
    conn,    \* conn[c]: the local `conn` of the call, a socket of wm
    result,  \* result[c]: what the call returned
    hist,    \* hist[c]: the steps the call has taken, in order
    wm       \* wm[k]: the IPC socket k of the window manager

vars == <<op, param, pc, conn, result, hist, wm>>

Init ==
    /\ op = [c \in Calls |-> "none"]
    /\ param = [c \in Calls |-> <<>>]
    /\ pc = [c \in Calls |-> "idle"]
    /\ conn = [c \in Calls |-> NoConn]
    /\ result = [c \in Calls |-> NoResult]
    /\ hist = [c \in Calls |-> <<>>]
    /\ wm = [k \in {} |-> NoReply]

\* A faulty Connect: an open socket is taken from a pool when there is one.
ConnectPooled(w, c) ==
    IF \E k \in DOMAIN w : w[k].open
    THEN [wm |-> w, id |-> CHOOSE k \in DOMAIN w : w[k].open]
    ELSE LET id == <<c, 1>>
             socket == [owner |-> c, open |-> TRUE, users |-> {},
                        requests |-> <<>>, reply |-> NoReply]
         IN  [wm |-> [k \in DOMAIN w \cup {id} |->
                         IF k = id THEN socket ELSE w[k]],
              id |-> id]

\* I3::connect(): a new socket to the window manager, owned by call c.
Connect(w, c) ==
    LET id == <<c, Cardinality({k \in DOMAIN w : k[1] = c}) + 1>>
        socket == [owner |-> c, open |-> TRUE, users |-> {},
                   requests |-> <<>>, reply |-> NoReply]
    IN  [wm |-> [k \in DOMAIN w \cup {id} |-> IF k = id THEN socket ELSE w[k]],
         id |-> id]

\* A faulty DropConn: the socket stays open.
KeepConn(w, k) == w

\* The local `conn` going out of scope: the socket is closed.
DropConn(w, k) ==
    IF k = NoConn THEN w ELSE [w EXCEPT ![k].open = FALSE]

\* The tool router dispatches call c to tool o with parameter p; the tool
\* starts with self.connect().await.
Call(c, o, p) ==
    /\ pc[c] = "idle"
    /\ op' = [op EXCEPT ![c] = o]
    /\ param' = [param EXCEPT ![c] = p]
    /\ pc' = [pc EXCEPT ![c] = "connecting"]
    /\ hist' = [hist EXCEPT ![c] = Append(@, "connect")]
    /\ UNCHANGED <<conn, result, wm>>

\* self.connect().await? yields the connection.
ConnectOk(c) ==
    /\ pc[c] = "connecting"
    /\ LET got == Connect(wm, c)
       IN  /\ wm' = got.wm
           /\ conn' = [conn EXCEPT ![c] = got.id]
    /\ pc' = [pc EXCEPT ![c] = "connected"]
    /\ hist' = [hist EXCEPT ![c] = Append(@, "connected")]
    /\ UNCHANGED <<op, param, result>>

\* A faulty ConnectErr: the tool connects again after a failure.
ConnectErrRetry(c, e) ==
    /\ pc[c] = "connecting"
    /\ Len(hist[c]) < 4
    /\ hist' = [hist EXCEPT ![c] = @ \o <<"connect_err", "connect">>]
    /\ UNCHANGED <<op, param, pc, conn, result, wm>>

\* self.connect().await? fails: the tool returns the McpError at once.
ConnectErr(c, e) ==
    /\ pc[c] = "connecting"
    /\ result' = [result EXCEPT ![c] = InternalError(ConnectErrPrefix \o e)]
    /\ pc' = [pc EXCEPT ![c] = "done"]
    /\ hist' = [hist EXCEPT ![c] = Append(@, "connect_err")]
    /\ UNCHANGED <<op, param, conn, wm>>

\* conn.run_command(&command) / conn.get_workspaces() / conn.get_tree():
\* the request goes out on the call's connection.
Act(c) ==
    /\ pc[c] = "connected"
    /\ wm' = [wm EXCEPT ![conn[c]].requests =
                            Append(@, NativeAction(op[c], param[c])),
                        ![conn[c]].users = @ \cup {c}]
    /\ pc' = [pc EXCEPT ![c] = "awaiting"]
    /\ hist' = [hist EXCEPT ![c] = Append(@, "act")]
    /\ UNCHANGED <<op, param, conn, result>>

\* The window manager's reply r to the request arrives on the call's
\* connection; the tool normalizes or serializes it and returns.
Return(c, r) ==
    /\ pc[c] = "awaiting"
    /\ result' = [result EXCEPT ![c] = Finish(op[c], param[c], r)]
    /\ wm' = DropConn([wm EXCEPT ![conn[c]].reply = r], conn[c])
    /\ conn' = [conn EXCEPT ![c] = NoConn]
    /\ pc' = [pc EXCEPT ![c] = "done"]
    /\ hist' = [hist EXCEPT ![c] = @ \o <<"reply", "return">>]
    /\ UNCHANGED <<op, param>>

\* The reply r arrives but serde_json::to_string_pretty fails with e.
SerializeErr(c, r, e) ==
    /\ pc[c] = "awaiting"
    /\ Serializes(op[c])
    /\ result' = [result EXCEPT ![c] = InternalError(SerErrPrefix(op[c]) \o e)]
    /\ wm' = DropConn([wm EXCEPT ![conn[c]].reply = r], conn[c])
    /\ conn' = [conn EXCEPT ![c] = NoConn]
    /\ pc' = [pc EXCEPT ![c] = "done"]
    /\ hist' = [hist EXCEPT ![c] = @ \o <<"reply", "ser_err">>]
    /\ UNCHANGED <<op, param>>

\* The native action fails with the I/O error e.
IoErr(c, e) ==
    /\ pc[c] = "awaiting"
    /\ result' = [result EXCEPT ![c] = InternalError(IoErrPrefix(op[c]) \o e)]
    /\ wm' = DropConn(wm, conn[c])
    /\ conn' = [conn EXCEPT ![c] = NoConn]
    /\ pc' = [pc EXCEPT ![c] = "done"]
    /\ hist' = [hist EXCEPT ![c] = Append(@, "io_err")]
    /\ UNCHANGED <<op, param>>

\* The host drops the call's future at one of its await points.
Cancel(c) ==
    /\ pc[c] \in {"connecting", "awaiting"}
    /\ wm' = DropConn(wm, conn[c])
    /\ conn' = [conn EXCEPT ![c] = NoConn]
    /\ pc' = [pc EXCEPT ![c] = "cancelled"]
    /\ hist' = [hist EXCEPT ![c] = Append(@, "cancel")]
    /\ UNCHANGED <<op, param, result>>

\* The parameter strings tool o can be called with.
ParamsOf(o, P) == IF HasParam(o) THEN P ELSE {<<>>}

\* The calls awaiting the reply to their native action.
Awaiting == {c \in Calls : pc[c] = "awaiting"}

\* The kind of request call c has made.
Asked(c) == NativeAction(op[c], param[c]).kind

\* Concurrent calls.
Next ==
    \/ \E c \in Calls, o \in Operations : \E p \in ParamsOf(o, ConcParams) :
          Call(c, o, p)
    \/ \E c \in Calls : ConnectOk(c)
    \/ \E c \in Calls, e \in Errors : ConnectErr(c, e)
    \/ \E c \in Calls : Act(c)
    \/ \E c \in Awaiting : \E r \in ConcReplies(Asked(c)) : Return(c, r)
    \/ \E c \in Awaiting : \E r \in ConcReplies(Asked(c)), e \in Errors :
          SerializeErr(c, r, e)
    \/ \E c \in Calls, e \in Errors : IoErr(c, e)
    \/ \E c \in Calls : Cancel(c)

Spec == Init /\ [][Next]_vars

\* One call, over every parameter and every reply.
NextCall ==
    \/ \E o \in Operations : \E p \in ParamsOf(o, Params) : Call(1, o, p)
    \/ ConnectOk(1)
    \/ \E e \in Errors : ConnectErr(1, e)
    \/ Act(1)
    \/ \E c \in Awaiting : \E r \in Replies(Asked(c)) : Return(c, r)
    \/ \E c \in Awaiting : \E r \in Replies(Asked(c)), e \in Errors :
          SerializeErr(c, r, e)
    \/ \E e \in Errors : IoErr(1, e)
    \/ Cancel(1)

SpecCall == Init /\ [][NextCall]_vars

(***************************************************************************)
(* Reading the state: what a call did and what it was answered.            *)
(***************************************************************************)
\* The sockets call c opened.
Sockets(c) == {k \in DOMAIN wm : wm[k].owner = c}

\* Call c took step e.
Took(c, e) == \E i \in 1..Len(hist[c]) : hist[c][i] = e

\* Call c returned after the reply to its native action arrived.
Returned(c) == pc[c] = "done" /\ Took(c, "return")

\* The reply the window manager gave call c on its connection.
ReplyOf(c) == wm[CHOOSE k \in Sockets(c) : TRUE].reply

IsPrefix(a, b) == Len(a) <= Len(b) /\ SubSeq(b, 1, Len(a)) = a

\* The command tools that end with the success / failure branch.
NormalizedOps ==
    {"switch_workspace", "focus_window", "move_to_workspace", "exec",
     "kill", "kill_window", "fullscreen"}

\* The tools that return serialized data.
BypassOps == {"get_workspaces", "get_tree", "run_command"}

EveryFlagSet(results) == \A i \in 1..Len(results) : results[i].success

(***************************************************************************)
(* A JSON reader, to read back what a tool serialized.  It reads any JSON  *)
(* text made of null, booleans, integers, strings, arrays and objects,     *)
(* and yields JFail on any other text.                                     *)
(***************************************************************************)
JFail == [t |-> "fail"]

NoParse == [ok |-> FALSE, v |-> JFail, i |-> 0]

\* The character at position i, "" past the end.
At(t, i) == IF i \in 1..Len(t) THEN t[i] ELSE ""

RECURSIVE SkipSpace(_, _)
SkipSpace(t, i) ==
    IF At(t, i) \in {" ", "\n"} THEN SkipSpace(t, i + 1) ELSE i

\* The string whose opening quote is before position i.
RECURSIVE ReadString(_, _, _)
ReadString(t, i, acc) ==
    CASE At(t, i) = ""   -> NoParse
      [] At(t, i) = "\"" -> [ok |-> TRUE, v |-> JStr(acc), i |-> i + 1]
      [] At(t, i) = "\\" ->
            (IF At(t, i + 1) = "" THEN NoParse
             ELSE ReadString(t, i + 2,
                     Append(acc, IF At(t, i + 1) = "n" THEN "\n"
                                 ELSE At(t, i + 1))))
      [] OTHER -> ReadString(t, i + 1, Append(acc, At(t, i)))

IsDigit(ch) == \E d \in 1..10 : Digits[d] = ch

DigitValue(ch) == (CHOOSE d \in 1..10 : Digits[d] = ch) - 1

RECURSIVE ReadDigits(_, _, _)
ReadDigits(t, i, acc) ==
    IF IsDigit(At(t, i))
    THEN ReadDigits(t, i + 1, 10 * acc + DigitValue(At(t, i)))
    ELSE [ok |-> TRUE, v |-> JNum(acc), i |-> i]

ReadNumber(t, i) ==
    IF At(t, i) = "-"
    THEN (IF IsDigit(At(t, i + 1))
          THEN LET r == ReadDigits(t, i + 1, 0)
               IN  [ok |-> TRUE, v |-> JNum(0 - r.v.n), i |-> r.i]
          ELSE NoParse)
    ELSE ReadDigits(t, i, 0)

Word(t, i, w, v) ==
    IF SubSeq(t, i, i + Len(w) - 1) = w
    THEN [ok |-> TRUE, v |-> v, i |-> i + Len(w)]
    ELSE NoParse

RECURSIVE ReadValue(_, _)
RECURSIVE ReadItems(_, _, _)
RECURSIVE ReadFields(_, _, _)

\* The items of an array, from position i on, after those of acc.
ReadItems(t, i, acc) ==
    LET r == ReadValue(t, i)
        k == SkipSpace(t, r.i)
    IN  IF ~r.ok THEN NoParse
        ELSE IF At(t, k) = ","
             THEN ReadItems(t, k + 1, Append(acc, r.v))
        ELSE IF At(t, k) = "]"
             THEN [ok |-> TRUE, v |-> JArr(Append(acc, r.v)), i |-> k + 1]
        ELSE NoParse

\* The fields of an object, from position i on, after those of acc.
ReadFields(t, i, acc) ==
    LET j == SkipSpace(t, i)
        key == IF At(t, j) = "\"" THEN ReadString(t, j + 1, <<>>) ELSE NoParse
        c == SkipSpace(t, key.i)
        r == IF key.ok /\ At(t, c) = ":" THEN ReadValue(t, c + 1) ELSE NoParse
        k == SkipSpace(t, r.i)
        got == Append(acc, <<key.v.s, r.v>>)
    IN  IF ~r.ok THEN NoParse
        ELSE IF At(t, k) = "," THEN ReadFields(t, k + 1, got)
        ELSE IF At(t, k) = "}"
             THEN [ok |-> TRUE, v |-> JObj(got), i |-> k + 1]
        ELSE NoParse

ReadValue(t, i) ==
    LET j == SkipSpace(t, i)
        ch == At(t, j)
    IN  CASE ch = "n"  -> Word(t, j, <<"n", "u", "l", "l">>, JNull)
          [] ch = "t"  -> Word(t, j, <<"t", "r", "u", "e">>, JBool(TRUE))
          [] ch = "f"  -> Word(t, j, <<"f", "a", "l", "s", "e">>, JBool(FALSE))
          [] ch = "\"" -> ReadString(t, j + 1, <<>>)
          [] ch = "["  ->
                (IF At(t, SkipSpace(t, j + 1)) = "]"
                 THEN [ok |-> TRUE, v |-> JArr(<<>>),
                       i |-> SkipSpace(t, j + 1) + 1]
                 ELSE ReadItems(t, j + 1, <<>>))
          [] ch = "{"  ->
                (IF At(t, SkipSpace(t, j + 1)) = "}"
                 THEN [ok |-> TRUE, v |-> JObj(<<>>),
                       i |-> SkipSpace(t, j + 1) + 1]
                 ELSE ReadFields(t, j + 1, <<>>))
          [] ch = "-" \/ IsDigit(ch) -> ReadNumber(t, j)
          [] OTHER -> NoParse

ReadJson(t) ==
    LET r == ReadValue(t, 1)
    IN  IF r.ok /\ SkipSpace(t, r.i) = Len(t) + 1 THEN r.v ELSE JFail

\* The value of field key of the JSON object v, JFail if it has none.
Field(v, key) ==
    IF v.t = "obj" /\ \E i \in 1..Len(v.fields) : v.fields[i][1] = key
    THEN v.fields[CHOOSE i \in 1..Len(v.fields) : v.fields[i][1] = key][2]
    ELSE JFail

(***************************************************************************)
(* The claims.                                                             *)
(***************************************************************************)
\* "Failed to ": how every failure message of a command tool begins.
FailedTo == <<"F", "a", "i", "l", "e", "d", " ", "t", "o", " ">>

\* C1: error-tier separation.  A call whose connect failed has returned a
\* protocol-level error (Err), never content; and a command tool whose
\* connect and transmission succeeded but whose reply holds a failed
\* sub-result has returned content (Ok) that carries a failure message,
\* never a protocol-level error.
C1_ErrorTierSeparation ==
    \A c \in Calls :
        /\ Took(c, "connect_err") =>
              /\ pc[c] = "done"
              /\ result[c].tier = "Err"
              /\ IsPrefix(ConnectErrPrefix, result[c].text)
        /\ (Returned(c) /\ op[c] \in NormalizedOps
              /\ ~EveryFlagSet(ReplyOf(c).data)) =>
              /\ result[c].tier = "Ok"
              /\ IsPrefix(FailedTo, result[c].text)

\* C1 witness: kill_window returned content although the second of its two
\* sub-results failed.
C1_Witness ==
    \E c \in Calls :
        /\ Returned(c)
        /\ op[c] = "kill_window"
        /\ ReplyOf(c).data = <<[success |-> TRUE, error |-> <<>>],
                               [success |-> FALSE, error |-> << <<"N", "o">> >>]>>
        /\ result[c].tier = "Ok"
        /\ IsPrefix(FailKill, result[c].text)

\* C2: fold correctness.  A command tool returns its confirmation message
\* iff every sub-result of the reply has its success flag set; the empty
\* reply yields the confirmation message.
C2_FoldCorrectness ==
    \A c \in Calls :
        (Returned(c) /\ op[c] \in NormalizedOps) =>
            /\ (result[c] = ToolSuccess(SuccessMsg(op[c], param[c])))
                  <=> EveryFlagSet(ReplyOf(c).data)
            /\ ReplyOf(c).data = <<>> =>
                  result[c] = ToolSuccess(SuccessMsg(op[c], param[c]))

\* C2 witness: switch_workspace "2", answered by the empty list, returned
\* "Switched to workspace '2'".
C2_Witness ==
    \E c \in Calls :
        /\ Returned(c)
        /\ op[c] = "switch_workspace"
        /\ param[c] = <<"2">>
        /\ ReplyOf(c).data = <<>>
        /\ result[c].tier = "Ok"
        /\ result[c].text =
              <<"S", "w", "i", "t", "c", "h", "e", "d", " ", "t", "o", " ",
                "w", "o", "r", "k", "s", "p", "a", "c", "e", " ", "'", "2", "'">>

\* The non-empty error texts of the failing sub-results, in order.
RECURSIVE FailureTexts(_)
FailureTexts(results) ==
    IF results = <<>> THEN <<>>
    ELSE (IF ~Head(results).success /\ Head(results).error # <<>>
             /\ Head(results).error[1] # <<>>
          THEN Head(results).error
          ELSE <<>>) \o FailureTexts(Tail(results))

\* Texts joined by ", ".
RECURSIVE CommaJoined(_)
CommaJoined(texts) ==
    IF texts = <<>> THEN <<>>
    ELSE IF Len(texts) = 1 THEN texts[1]
    ELSE texts[1] \o <<",", " ">> \o CommaJoined(Tail(texts))

\* C3: error text concatenation.  When a command tool reports failure, the
\* text after the failure prefix is exactly the non-empty error texts of
\* the failing sub-results, in order, joined by ", "; succeeded
\* sub-results and sub-results with no or an empty error text contribute
\* nothing.
C3_ErrorTextConcatenation ==
    \A c \in Calls :
        (Returned(c) /\ op[c] \in NormalizedOps
           /\ ~EveryFlagSet(ReplyOf(c).data)) =>
            result[c].text =
                FailPrefix(op[c]) \o CommaJoined(FailureTexts(ReplyOf(c).data))

\* The command string the claim gives for tool o and parameter p.
ExpectedCommand(o, p) ==
    CASE o = "switch_workspace" ->
            <<"w", "o", "r", "k", "s", "p", "a", "c", "e", " ">> \o p
      [] o = "focus_window" -> p \o <<" ", "f", "o", "c", "u", "s">>
      [] o = "move_to_workspace" ->
            <<"m", "o", "v", "e", " ", "c", "o", "n", "t", "a", "i", "n", "e",
              "r", " ", "t", "o", " ", "w", "o", "r", "k", "s", "p", "a", "c",
              "e", " ">> \o p
      [] o = "exec" -> <<"e", "x", "e", "c", " ">> \o p
      [] o = "kill_window" -> p \o <<" ", "k", "i", "l", "l">>
      [] o = "run_command" -> p
      [] o = "kill" -> <<"k", "i", "l", "l">>
      [] o = "fullscreen" ->
            <<"f", "u", "l", "l", "s", "c", "r", "e", "e", "n", " ", "t", "o",
              "g", "g", "l", "e">>

\* C4: command-string construction.  Every command a command tool sends is
\* exactly the literal of its tool put before or after the unchanged
\* parameter (run_command: the parameter itself; kill and fullscreen: the
\* literal alone).
C4_CommandConstruction ==
    \A c \in Calls : \A k \in Sockets(c) :
        \A i \in 1..Len(wm[k].requests) :
            op[c] \notin {"get_workspaces", "get_tree"} =>
                /\ wm[k].requests[i].kind = "run_command"
                /\ wm[k].requests[i].text = ExpectedCommand(op[c], param[c])

\* C4 witness: focus_window with a criteria string that holds a quote has
\* sent it unquoted and unescaped, followed by " focus".
C4_Witness ==
    \E c \in Calls : \E k \in Sockets(c) :
        /\ op[c] = "focus_window"
        /\ param[c] = <<"[", "\"", "]">>
        /\ wm[k].requests =
              <<[kind |-> "run_command",
                 text |-> <<"[", "\"", "]", " ", "f", "o", "c", "u", "s">>]>>

\* C5: passthrough fidelity.  What run_command returns reads back as a
\* list as long as the reply, whose i-th element holds the success flag of
\* the i-th sub-result and its error text (null when it has none); it is
\* content, also when sub-results failed.
C5_PassthroughFidelity ==
    \A c \in Calls :
        (Returned(c) /\ op[c] = "run_command") =>
            LET sent == ReplyOf(c).data
                back == ReadJson(result[c].text)
            IN  /\ result[c].tier = "Ok"
                /\ back.t = "arr"
                /\ Len(back.items) = Len(sent)
                /\ \A i \in 1..Len(sent) :
                      /\ Field(back.items[i], KeySuccess) = JBool(sent[i].success)
                      /\ Field(back.items[i], KeyError) =
                            (IF sent[i].error = <<>> THEN JNull
                             ELSE JStr(sent[i].error[1]))

\* C5 witness: run_command returned a two-element list whose second element
\* failed with an error text that holds a quote.
C5_Witness ==
    \E c \in Calls :
        /\ Returned(c)
        /\ op[c] = "run_command"
        /\ ReplyOf(c).data = <<[success |-> TRUE, error |-> <<>>],
                               [success |-> FALSE, error |-> << <<"\"">> >>]>>
        /\ ReadJson(result[c].text).t = "arr"
        /\ Len(ReadJson(result[c].text).items) = 2

\* C6: non-emptiness validation.  A switch_workspace or focus_window call
\* whose parameter is the empty string sends no native command.
C6_EmptyParameterNotSent ==
    \A c \in Calls :
        (op[c] \in {"switch_workspace", "focus_window"} /\ param[c] = <<>>) =>
            \A k \in Sockets(c) : wm[k].requests = <<>>

\* C7: guaranteed connection release.  Once a call has ended, by a return
\* of content, an I/O error, a serialization error or the cancellation of
\* its future, it holds no connection and no socket it opened is open; an
\* open socket is held by a call that is still running.
C7_ConnectionReleased ==
    /\ \A c \in Calls :
          pc[c] \in {"done", "cancelled"} =>
              /\ conn[c] = NoConn
              /\ \A k \in Sockets(c) : ~wm[k].open
    /\ \A k \in DOMAIN wm :
          wm[k].open =>
              \E c \in Calls : conn[c] = k /\ pc[c] \in {"connected", "awaiting"}

\* C7 witness: one call was cancelled while it awaited the reply, another
\* ended with an I/O error; both had opened a socket and both sockets are
\* closed.
C7_Witness ==
    \E c1, c2 \in Calls :
        /\ pc[c1] = "cancelled" /\ Took(c1, "act")
        /\ pc[c2] = "done" /\ Took(c2, "io_err")
        /\ Sockets(c1) # {} /\ Sockets(c2) # {}
        /\ \A k \in Sockets(c1) \cup Sockets(c2) : ~wm[k].open

\* C8: connection isolation.  In every interleaving a call opens at most
\* one socket, the connection it holds is the socket it opened and no
\* other call holds it, a socket carries only its opener's one request,
\* and two calls with the same tool, parameter and reply return the same
\* result whatever ran before or beside them.
C8_ConnectionIsolation ==
    /\ \A c \in Calls :
          /\ Cardinality(Sockets(c)) <= 1
          /\ Took(c, "connected") => Cardinality(Sockets(c)) = 1
          /\ conn[c] # NoConn => conn[c] \in Sockets(c)
    /\ \A c1, c2 \in Calls :
          (c1 # c2 /\ conn[c1] # NoConn) => conn[c1] # conn[c2]
    /\ \A k \in DOMAIN wm :
          /\ wm[k].users \subseteq {wm[k].owner}
          /\ wm[k].requests \in
                {<<>>, <<NativeAction(op[wm[k].owner], param[wm[k].owner])>>}
    /\ \A c1, c2 \in Calls :
          (/\ Returned(c1) /\ Returned(c2)
           /\ op[c1] = op[c2] /\ param[c1] = param[c2]
           /\ ReplyOf(c1) = ReplyOf(c2)) => result[c1] = result[c2]

\* C8 witness: two calls await their replies at the same time, each on an
\* open socket of its own.
C8_Witness ==
    \E c1, c2 \in Calls :
        /\ c1 # c2
        /\ pc[c1] = "awaiting" /\ pc[c2] = "awaiting"
        /\ conn[c1] # conn[c2]
        /\ wm[conn[c1]].open /\ wm[conn[c2]].open
        /\ wm[conn[c1]].users = {c1} /\ wm[conn[c2]].users = {c2}

\* The orders in which a call takes its steps.
CompleteRuns ==
    {<<"connect", "connect_err">>,
     <<"connect", "cancel">>,
     <<"connect", "connected", "act", "cancel">>,
     <<"connect", "connected", "act", "io_err">>,
     <<"connect", "connected", "act", "reply", "ser_err">>,
     <<"connect", "connected", "act", "reply", "return">>}

\* The number of requests call c has sent.
RECURSIVE SentOn(_)
SentOn(ks) ==
    IF ks = {} THEN 0
    ELSE LET k == CHOOSE x \in ks : TRUE
         IN  Len(wm[k].requests) + SentOn(ks \ {k})

\* C9: step ordering within one call.  The steps of a call follow one of
\* the orders connect, connected, act, reply, return: the native action is
\* sent only after the connect succeeded and content is returned only
\* after the reply arrived; a call that ended after its connect succeeded
\* sent exactly one request, and a call whose connect failed sent none,
\* did not connect again and ended at once with the error.
C9_StepOrdering ==
    \A c \in Calls :
        /\ \E run \in CompleteRuns : IsPrefix(hist[c], run)
        /\ SentOn(Sockets(c)) = (IF Took(c, "act") THEN 1 ELSE 0)
        /\ SentOn(Sockets(c)) > 0 => Took(c, "connected")
        /\ result[c].tier = "Ok" =>
              /\ Took(c, "reply")
              /\ ReplyOf(c) # NoReply
        /\ (Took(c, "connected") /\ pc[c] \in {"done", "cancelled"}) =>
              SentOn(Sockets(c)) = 1
        /\ Took(c, "connect_err") =>
              /\ hist[c] = <<"connect", "connect_err">>
              /\ pc[c] = "done"
              /\ result[c].tier = "Err"
              /\ Sockets(c) = {}

\* C9 witness: one call ended on its failed connect without a socket,
\* another went through connect, act, reply and return with one request.
C9_Witness ==
    \E c1, c2 \in Calls :
        /\ hist[c1] = <<"connect", "connect_err">> /\ Sockets(c1) = {}
        /\ hist[c2] = <<"connect", "connected", "act", "reply", "return">>
        /\ SentOn(Sockets(c2)) = 1
        /\ result[c2].tier = "Ok"

\* The error texts the sub-results carry, in order.
PresentTexts(results) ==
    LET carrying == SelectSeq(results, LAMBDA r : r.error # <<>>)
    IN  [i \in 1..Len(carrying) |-> carrying[i].error[1]]

\* C10 as stated: eight of the ten tools end with the normalizer and the
\* tools that bypass it are get_workspaces, get_tree and run_command.
C10_EightNormalize ==
    \A c \in Calls :
        Returned(c) =>
            /\ Cardinality({o \in Operations : ~Serializes(o)}) = 8
            /\ {o \in Operations : Serializes(o)} = BypassOps
            /\ op[c] \in BypassOps <=> ReadJson(result[c].text) # JFail

\* C10 amended: seven of the ten tools (switch_workspace, focus_window,
\* move_to_workspace, exec, kill, kill_window, fullscreen) end with the
\* same normalizer, the confirmation message when every flag is set and
\* else the failure prefix followed by the joined error texts; the three
\* others (get_workspaces, get_tree, run_command) return the reply
\* serialized, which reads back as the reply.
C10_SevenNormalize ==
    /\ Cardinality(Operations) = 10
    /\ Cardinality({o \in Operations : ~Serializes(o)}) = 7
    /\ {o \in Operations : ~Serializes(o)} = NormalizedOps
    /\ {o \in Operations : Serializes(o)} = BypassOps
    /\ \A c \in Calls :
          Returned(c) =>
              /\ result[c].tier = "Ok"
              /\ op[c] \in NormalizedOps =>
                    result[c].text =
                        (IF EveryFlagSet(ReplyOf(c).data)
                         THEN SuccessMsg(op[c], param[c])
                         ELSE FailPrefix(op[c])
                              \o CommaJoined(PresentTexts(ReplyOf(c).data)))
              /\ op[c] \in BypassOps =>
                    ReadJson(result[c].text) = ReplyJson(ReplyOf(c))

\* C10 witness: run_command, answered by a failed sub-result, returned the
\* serialized list and no failure message.
C10_Witness ==
    \E c \in Calls :
        /\ Returned(c)
        /\ op[c] = "run_command"
        /\ ReplyOf(c).data = <<[success |-> FALSE, error |-> << <<"N", "o">> >>]>>
        /\ ~IsPrefix(FailedTo, result[c].text)
        /\ Head(result[c].text) = "["
        /\ Len(ReadJson(result[c].text).items) = 1

====
